---- MODULE Spec2Model ----
(***************************************************************************)
(* Block operations and block context menu of the Tiptap rich editor       *)
(* (src/src/utils/blockOperations.js, src/src/utils/slashCommand.js,       *)
(* src/src/utils/blockTypes.js, src/src/components/BlockContextMenu.vue,   *)
(* src/src/components/TurnIntoSubmenu.vue,                                 *)
(* src/src/components/TiptapEditor.vue,                                    *)
(* src/src/components/DragHandleMenu.vue).                                 *)
(*                                                                         *)
(* The document is the ProseMirror document of the editor: a sequence of   *)
(* top-level blocks.  Positions are ProseMirror positions: a node occupies *)
(* the size of its content plus an opening and a closing token.            *)
(*                                                                         *)
(* Specifications:                                                         *)
(*   Spec            the commands moveBlockTo, duplicateBlockAt and        *)
(*                   deleteBlockAt run one after another on the document;  *)
(*   SpecCommands    every position-addressed command of BlockOperations   *)
(*                   and BlockColor, and the clipboard writes of copies;   *)
(*   SpecValidate    the pure function validateDropPosition applied to     *)
(*                   arbitrary JavaScript argument values;                 *)
(*   SpecConversion  the pure function isConversionValid applied to every  *)
(*                   pair of block types and heading levels;               *)
(*   SpecMenu        the block context menu: the drag handle's node, the   *)
(*                   menu opened for it, conversions picked from its grid  *)
(*                   and from the Turn Into submenu, and deletions in      *)
(*                   between;                                              *)
(*   SpecColor       block colours set and the document saved with         *)
(*                   getHTML and loaded again with setHTML;                *)
(*   SpecDrag        the drag handle: hovering, dragging, dropping and     *)
(*                   clicking it, and the timeouts that reset the          *)
(*                   dragging flags;                                       *)
(*   SpecDragFair    SpecDrag with the timeouts eventually run;            *)
(*   SpecEdit        the six commands that change the document, run one    *)
(*                   after another on documents of bounded size.           *)
(***************************************************************************)
EXTENDS Integers, Sequences, FiniteSets, TLC

VARIABLES
    doc,            \* editor.state.doc: the sequence of top-level blocks
    call,           \* the command invocation that has just returned, or NoCall
    vArgs,          \* SpecValidate: the arguments given to validateDropPosition
    vResult,        \* SpecValidate: what validateDropPosition returned
    copying,        \* the clipboard write a copy is waiting for, or NoCopy
    cvArgs,         \* SpecConversion: the arguments given to isConversionValid
    cvResult,       \* SpecConversion: what isConversionValid returned
    currentNode,    \* TiptapEditor: the node the drag handle is at, or NoNode
    currentNodePos, \* TiptapEditor: its position, or -1
    isOpen,         \* BlockContextMenu: the menu is shown
    blockInfo,      \* BlockContextMenu: the block the menu was opened for, or
                    \* NoBlockInfo
    clipboard,      \* what the last fulfilled clipboard write put on the
                    \* system clipboard, or NoItem
    isDragging,     \* TiptapEditor: isDragging, hides the bubble menu
    menuIsDragging, \* DragHandleMenu: isDragging, tells a drag from a click
    isMenuOpen,     \* DragHandleMenu: isMenuOpen
    editorTimers,   \* TiptapEditor: the 100 ms timeouts of handleDragEnd pending
    menuTimers,     \* DragHandleMenu: the 50 ms timeouts of handleDragEnd pending
    gesture,        \* the browser: where the drag of the handle is, "idle",
                    \* "dragging", "dropped" or "released"
    dragged         \* the editor view: the block taken along by the drag, the
                    \* position it was taken from and the document of that
                    \* time, or NoDrag

vars == <<doc, call, vArgs, vResult, copying, cvArgs, cvResult,
          currentNode, currentNodePos, isOpen, blockInfo, clipboard,
          isDragging, menuIsDragging, isMenuOpen, editorTimers, menuTimers,
          gesture, dragged>>

\* The state of the block context menu.
menuVars == <<currentNode, currentNodePos, isOpen, blockInfo>>

\* The state of the drag handle.
dragVars == <<isDragging, menuIsDragging, isMenuOpen, editorTimers, menuTimers,
              gesture, dragged>>

sideVars == <<clipboard, dragVars>>

\* The variables the block commands leave alone.
otherVars == <<vArgs, vResult, cvArgs, cvResult, menuVars, sideVars>>

(***************************************************************************)
(* Bounds of the model.                                                    *)
(***************************************************************************)
\* A command that would leave more blocks than this is not taken.
MaxBlocks == 3
\* SpecCommands: a command that would leave more blocks than this is not
\* taken.
MaxCommandBlocks == 2
\* SpecValidate: positions and document sizes range up to MaxPos.
MaxPos == 8
\* SpecValidate: node sizes range over 1..MaxNodeSize.
MaxNodeSize == 3

(***************************************************************************)
(* JavaScript values as validateDropPosition sees them.  A number is kept  *)
(* as twice its value, so that halves (2.5) are numbers of the model; NaN  *)
(* is a value whose typeof is 'number' and for which every comparison is   *)
(* false.                                                                  *)
(***************************************************************************)
Null == "null"

Num(i) == [k |-> "number", twice |-> 2 * i]
Half(t) == [k |-> "number", twice |-> t]
NaN == [k |-> "NaN", twice |-> 0]
Undefined == [k |-> "undefined", twice |-> 0]
Str == [k |-> "string", twice |-> 0]

typeof(v) == IF v.k \in {"number", "NaN"} THEN "number" ELSE v.k
IsNaN(v) == v.k = "NaN"
IsInteger(v) == v.k = "number" /\ v.twice % 2 = 0

JsLt(a, b) == ~IsNaN(a) /\ ~IsNaN(b) /\ a.twice < b.twice
JsGt(a, b) == ~IsNaN(a) /\ ~IsNaN(b) /\ a.twice > b.twice
JsLe(a, b) == ~IsNaN(a) /\ ~IsNaN(b) /\ a.twice <= b.twice
JsGe(a, b) == ~IsNaN(a) /\ ~IsNaN(b) /\ a.twice >= b.twice
JsStrictEq(a, b) == ~IsNaN(a) /\ ~IsNaN(b) /\ a.twice = b.twice
JsAdd(a, b) == IF IsNaN(a) \/ IsNaN(b) THEN NaN ELSE Half(a.twice + b.twice)

(***************************************************************************)
(* validateDropPosition({ sourcePos, targetPos, nodeSize, docSize })       *)
(***************************************************************************)
ReasonInvalidValues == "Invalid position values"
ReasonOutOfBounds == "Target position is outside document bounds"
ReasonOntoItself == "Cannot drop block onto itself"
ReasonAlreadyThere == "Block is already at this position"

\* validateDropPosition with the self-drop test written with < and > in
\* place of <= and >=: the two edges of the source fall through to the
\* next test.
validateDropPositionStrict(sourcePos, targetPos, nodeSize, docSize) ==
    IF typeof(sourcePos) # "number" \/ typeof(targetPos) # "number"
    THEN [isValid |-> FALSE, reason |-> ReasonInvalidValues]
    ELSE IF JsLt(targetPos, Num(0)) \/ JsGt(targetPos, docSize)
    THEN [isValid |-> FALSE, reason |-> ReasonOutOfBounds]
    ELSE LET sourceEnd == JsAdd(sourcePos, nodeSize) IN
         IF JsGt(targetPos, sourcePos) /\ JsLt(targetPos, sourceEnd)
         THEN [isValid |-> FALSE, reason |-> ReasonOntoItself]
         ELSE IF JsStrictEq(targetPos, sourcePos) \/ JsStrictEq(targetPos, sourceEnd)
         THEN [isValid |-> FALSE, reason |-> ReasonAlreadyThere]
         ELSE [isValid |-> TRUE, reason |-> Null]

validateDropPosition(sourcePos, targetPos, nodeSize, docSize) ==
    IF typeof(sourcePos) # "number" \/ typeof(targetPos) # "number"
    THEN [isValid |-> FALSE, reason |-> ReasonInvalidValues]
    ELSE IF JsLt(targetPos, Num(0)) \/ JsGt(targetPos, docSize)
    THEN [isValid |-> FALSE, reason |-> ReasonOutOfBounds]
    ELSE LET sourceEnd == JsAdd(sourcePos, nodeSize) IN
         IF JsGe(targetPos, sourcePos) /\ JsLe(targetPos, sourceEnd)
         THEN [isValid |-> FALSE, reason |-> ReasonOntoItself]
         ELSE IF JsStrictEq(targetPos, sourcePos) \/ JsStrictEq(targetPos, sourceEnd)
         THEN [isValid |-> FALSE, reason |-> ReasonAlreadyThere]
         ELSE [isValid |-> TRUE, reason |-> Null]

(***************************************************************************)
(* The document.  A block is a node: its type name, its attrs (level,      *)
(* backgroundColor) and its content.  A textblock (paragraph, heading,     *)
(* codeBlock) holds inline text, one entry per character with the marks on *)
(* it; a blockquote, a list and a list item hold blocks.                   *)
(***************************************************************************)
Inline(c, m) == [ch |-> c, marks |-> m]

Block(t, l, bg, txt) ==
    [type |-> t, level |-> l, backgroundColor |-> bg, text |-> txt, content |-> <<>>]

\* A blockquote, bulletList, orderedList or listItem holding the blocks kids.
Container(t, bg, kids) ==
    [type |-> t, level |-> Null, backgroundColor |-> bg, text |-> <<>>, content |-> kids]

IsTextblock(b) == b.type \in {"paragraph", "heading", "codeBlock"}

\* The node the schema fills in where a block is required and none is given.
EmptyParagraph == Block("paragraph", Null, Null, <<>>)

\* defaultContent: "# hello" and a paragraph with a marked word.
DefaultContent ==
    << Block("heading", "1", Null, <<Inline("h", {})>>),
       Block("paragraph", Null, Null, <<Inline("a", {}), Inline("b", {"bold"})>>) >>

RECURSIVE NodeSize(_), SizeOf(_)
\* The size of the content alone, without the two tokens around it.
NodeSizeOfContent(b) == IF IsTextblock(b) THEN Len(b.text) ELSE SizeOf(b.content)

\* node.nodeSize: the content and the two tokens around it.
NodeSize(b) == IF IsTextblock(b) THEN Len(b.text) + 2 ELSE SizeOf(b.content) + 2

\* doc.content.size: the sizes of the blocks of d.
SizeOf(d) == IF d = <<>> THEN 0 ELSE NodeSize(Head(d)) + SizeOf(Tail(d))

\* The position before block i (i = Len(d) + 1: the end of the document).
StartOf(d, i) == SizeOf(SubSeq(d, 1, i - 1))

\* The index of the block that starts at pos, or 0.
BlockStartingAt(d, pos) ==
    IF \E i \in 1..Len(d) : StartOf(d, i) = pos
    THEN CHOOSE i \in 1..Len(d) : StartOf(d, i) = pos
    ELSE 0

\* The index of the block whose inside (after its opening token, up to and
\* including the point before its closing token) holds pos, or 0.
BlockHolding(d, pos) ==
    IF \E i \in 1..Len(d) : StartOf(d, i) < pos /\ pos < StartOf(d, i + 1)
    THEN CHOOSE i \in 1..Len(d) : StartOf(d, i) < pos /\ pos < StartOf(d, i + 1)
    ELSE 0

\* The text node (a maximal run of characters with the same marks) of text
\* txt that holds character k: its first and last character.
RunFirst(txt, k) ==
    CHOOSE f \in 1..k :
        /\ \A j \in f..k : txt[j].marks = txt[k].marks
        /\ (f = 1 \/ txt[f - 1].marks # txt[k].marks)

RunLast(txt, k) ==
    CHOOSE l \in k..Len(txt) :
        /\ \A j \in k..l : txt[j].marks = txt[k].marks
        /\ (l = Len(txt) \/ txt[l + 1].marks # txt[k].marks)

(***************************************************************************)
(* doc.nodeAt(pos): the node directly after pos.  A position outside the   *)
(* document throws; the end of the document and the end of a textblock's   *)
(* content have no node after them; a position before or inside a text     *)
(* node gives that text node.                                              *)
(***************************************************************************)
NodeAt(d, pos) ==
    IF pos < 0 \/ pos > SizeOf(d)
    THEN [kind |-> "throw", index |-> 0, nodeSize |-> 0]
    ELSE IF BlockStartingAt(d, pos) # 0
    THEN [kind |-> "block", index |-> BlockStartingAt(d, pos),
          nodeSize |-> NodeSize(d[BlockStartingAt(d, pos)])]
    ELSE IF pos = SizeOf(d)
    THEN [kind |-> "null", index |-> 0, nodeSize |-> 0]
    ELSE LET i == BlockHolding(d, pos)
             offset == pos - StartOf(d, i) - 1
         IN  IF offset = Len(d[i].text)
             THEN [kind |-> "null", index |-> 0, nodeSize |-> 0]
             ELSE [kind |-> "text", index |-> i,
                   nodeSize |-> RunLast(d[i].text, offset + 1)
                                - RunFirst(d[i].text, offset + 1) + 1]

(***************************************************************************)
(* node.toJSON() and the node built back from it by insertContentAt.       *)
(* The JSON holds the type, the attrs and one entry per text node.         *)
(***************************************************************************)
RECURSIVE TextNodes(_)
TextNodes(txt) ==
    IF txt = <<>> THEN <<>>
    ELSE LET l == RunLast(txt, 1) IN
         << [type |-> "text",
             text |-> [j \in 1..l |-> txt[j].ch],
             marks |-> txt[1].marks] >>
         \o TextNodes(SubSeq(txt, l + 1, Len(txt)))

RECURSIVE toJSON(_)
toJSON(b) ==
    [type |-> b.type,
     attrs |-> [level |-> b.level, backgroundColor |-> b.backgroundColor],
     content |-> IF IsTextblock(b) THEN TextNodes(b.text)
                 ELSE [k \in 1..Len(b.content) |-> toJSON(b.content[k])]]

RECURSIVE InlineOf(_)
InlineOf(content) ==
    IF content = <<>> THEN <<>>
    ELSE [j \in 1..Len(Head(content).text) |->
             Inline(Head(content).text[j], Head(content).marks)]
         \o InlineOf(Tail(content))

RECURSIVE nodeFromJSON(_)
nodeFromJSON(json) ==
    IF json.type \in {"paragraph", "heading", "codeBlock"}
    THEN Block(json.type, json.attrs.level, json.attrs.backgroundColor,
               InlineOf(json.content))
    ELSE Container(json.type, json.attrs.backgroundColor,
                   [k \in 1..Len(json.content) |-> nodeFromJSON(json.content[k])])

(***************************************************************************)
(* The two transaction steps the commands chain.  The chain runs on one    *)
(* transaction, so the second step sees the document the first one left.   *)
(***************************************************************************)

\* deleteRange({ from, to }) for a range that covers whole blocks:
\* tr.delete(from, to).  A document must hold at least one block (the
\* schema's doc content is block+), so when nothing would be left the
\* replace step fills in an empty paragraph.
DeleteRange(d, from, to) ==
    LET kept == { i \in 1..Len(d) : StartOf(d, i) < from \/ StartOf(d, i) >= to }
        Nth(n) == CHOOSE i \in kept : Cardinality({ j \in kept : j < i }) = n - 1
        rest == [n \in 1..Cardinality(kept) |-> d[Nth(n)]]
    IN  IF rest = <<>> THEN <<EmptyParagraph>> ELSE rest

\* insertContentAt(position, nodeJSON) for 0 <= position <= doc.content.size
\* and the JSON of one block: tr.replaceWith(position, position, node).
\*   - between two blocks, before the first or after the last: the node is
\*     inserted there;
\*   - inside an empty textblock: the command widens the range by one on
\*     both sides, and the node replaces the empty textblock;
\*   - at the end of a textblock's content: the node goes after the
\*     textblock;
\*   - elsewhere inside a textblock: the textblock is split at position,
\*     both parts keep its type and attrs (the part before position is kept
\*     even when it is empty), and the node goes between them.
InsertContentAt(d, position, json) ==
    LET node == nodeFromJSON(json)
        At(i) == SubSeq(d, 1, i - 1) \o <<node>> \o SubSeq(d, i, Len(d))
    IN  IF position = SizeOf(d) THEN d \o <<node>>
        ELSE IF BlockStartingAt(d, position) # 0 THEN At(BlockStartingAt(d, position))
        ELSE LET i == BlockHolding(d, position)
                 offset == position - StartOf(d, i) - 1
                 txt == d[i].text
             IN  IF txt = <<>>
                 THEN SubSeq(d, 1, i - 1) \o <<node>> \o SubSeq(d, i + 1, Len(d))
                 ELSE IF offset = Len(txt) THEN At(i + 1)
                 ELSE SubSeq(d, 1, i - 1)
                      \o << [d[i] EXCEPT !.text = SubSeq(txt, 1, offset)],
                            node,
                            [d[i] EXCEPT !.text = SubSeq(txt, offset + 1, Len(txt))] >>
                      \o SubSeq(d, i + 1, Len(d))

(***************************************************************************)
(* Notifications (showWarning, showError, showInfo) a command raises.      *)
(***************************************************************************)
showWarning(message) == [type |-> "warning", message |-> message]
showError(message) == [type |-> "error", message |-> message]
showInfo(message) == [type |-> "info", message |-> message]

\* What a command leaves: the document, the value it returned, whether it
\* threw instead of returning, and the notifications it raised.
Returned(d, r, n) == [doc |-> d, ret |-> r, threw |-> FALSE, notes |-> n]
Threw(d) == [doc |-> d, ret |-> FALSE, threw |-> TRUE, notes |-> <<>>]

(***************************************************************************)
(* moveBlock(editor, sourcePos, targetPos)                                 *)
(* sourcePos is one of BlockPositions: nodeAt gives a block, nothing, or   *)
(* throws.                                                                 *)
(***************************************************************************)

\* moveBlock that inserts at targetPos as it was given, without the
\* adjustment for the deleted source; a position past the end of the
\* shortened document makes the chain throw, which the catch block reports.
moveBlockUnadjusted(d, sourcePos, targetPos) ==
    LET found == NodeAt(d, sourcePos) IN
    IF found.kind = "throw" THEN Threw(d)
    ELSE IF found.kind = "null"
    THEN Returned(d, FALSE, <<showWarning("Could not find block to move")>>)
    ELSE LET node == d[found.index]
             nodeSize == found.nodeSize
             validation == validateDropPosition(Num(sourcePos), Num(targetPos),
                                                Num(nodeSize), Num(SizeOf(d)))
             deleted == DeleteRange(d, sourcePos, sourcePos + nodeSize)
         IN  IF ~validation.isValid
             THEN IF validation.reason # ReasonAlreadyThere
                  THEN Returned(d, FALSE, <<showWarning(validation.reason)>>)
                  ELSE Returned(d, FALSE, <<>>)
             ELSE IF targetPos > SizeOf(deleted)
             THEN Returned(d, FALSE, <<showError("Failed to move block")>>)
             ELSE Returned(InsertContentAt(deleted, targetPos, toJSON(node)), TRUE, <<>>)

\* moveBlock without the "return false" that ends the rejected drop: the
\* warning is raised and the move goes on; a position outside the document
\* makes the chain throw, which the catch block reports.
moveBlockNoReturn(d, sourcePos, targetPos) ==
    LET found == NodeAt(d, sourcePos) IN
    IF found.kind = "throw" THEN Threw(d)
    ELSE IF found.kind = "null"
    THEN Returned(d, FALSE, <<showWarning("Could not find block to move")>>)
    ELSE LET node == d[found.index]
             nodeSize == found.nodeSize
             validation == validateDropPosition(Num(sourcePos), Num(targetPos),
                                                Num(nodeSize), Num(SizeOf(d)))
             warned == IF validation.isValid \/ validation.reason = ReasonAlreadyThere
                       THEN <<>>
                       ELSE <<showWarning(validation.reason)>>
             removed == DeleteRange(d, sourcePos, sourcePos + nodeSize)
             adjustedTargetPos == IF targetPos > sourcePos
                                  THEN targetPos - nodeSize
                                  ELSE targetPos
         IN  IF adjustedTargetPos < 0 \/ adjustedTargetPos > SizeOf(removed)
             THEN Returned(d, FALSE, warned \o <<showError("Failed to move block")>>)
             ELSE Returned(InsertContentAt(removed, adjustedTargetPos, toJSON(node)),
                           TRUE, warned)

\* moveBlock whose chain ends after deleteRange: the source range is
\* deleted and the block is not inserted again.
moveBlockDeleteOnly(d, sourcePos, targetPos) ==
    LET found == NodeAt(d, sourcePos) IN
    IF found.kind = "throw" THEN Threw(d)
    ELSE IF found.kind = "null"
    THEN Returned(d, FALSE, <<showWarning("Could not find block to move")>>)
    ELSE LET nodeSize == found.nodeSize
             validation == validateDropPosition(Num(sourcePos), Num(targetPos),
                                                Num(nodeSize), Num(SizeOf(d)))
         IN  IF ~validation.isValid
             THEN IF validation.reason # ReasonAlreadyThere
                  THEN Returned(d, FALSE, <<showWarning(validation.reason)>>)
                  ELSE Returned(d, FALSE, <<>>)
             ELSE Returned(DeleteRange(d, sourcePos, sourcePos + nodeSize), TRUE, <<>>)

moveBlock(d, sourcePos, targetPos) ==
    LET found == NodeAt(d, sourcePos) IN
    IF found.kind = "throw" THEN Threw(d)
    ELSE IF found.kind = "null"
    THEN Returned(d, FALSE, <<showWarning("Could not find block to move")>>)
    ELSE LET node == d[found.index]
             nodeSize == found.nodeSize
             docSize == SizeOf(d)
             validation == validateDropPosition(Num(sourcePos), Num(targetPos),
                                                Num(nodeSize), Num(docSize))
         IN  IF ~validation.isValid
             THEN IF validation.reason # ReasonAlreadyThere
                  THEN Returned(d, FALSE, <<showWarning(validation.reason)>>)
                  ELSE Returned(d, FALSE, <<>>)
             ELSE LET nodeJSON == toJSON(node)
                      adjustedTargetPos == IF targetPos > sourcePos
                                           THEN targetPos - nodeSize
                                           ELSE targetPos
                  IN  Returned(InsertContentAt(
                                   DeleteRange(d, sourcePos, sourcePos + nodeSize),
                                   adjustedTargetPos, nodeJSON),
                               TRUE, <<>>)

(***************************************************************************)
(* duplicateBlock(editor, pos, node) and the command duplicateBlockAt(pos) *)
(***************************************************************************)

\* duplicateBlock with the insert position taken from the size of the
\* node's content (pos + node.content.size) in place of pos + node.nodeSize.
duplicateBlockContentSize(d, pos, node) ==
    LET insertPos == pos + Len(node.text)
        nodeJSON == toJSON(node)
    IN  IF insertPos > SizeOf(d)
        THEN Returned(d, FALSE, <<showError("Failed to duplicate block")>>)
        ELSE Returned(InsertContentAt(d, insertPos, nodeJSON), TRUE,
                      <<showInfo("Block duplicated")>>)

duplicateBlock(d, pos, node) ==
    LET insertPos == pos + NodeSize(node)
        nodeJSON == toJSON(node)
    IN  IF insertPos > SizeOf(d)
        THEN Returned(d, FALSE, <<showError("Failed to duplicate block")>>)
        ELSE Returned(InsertContentAt(d, insertPos, nodeJSON), TRUE,
                      <<showInfo("Block duplicated")>>)

duplicateBlockAtCommand(d, pos) ==
    LET found == NodeAt(d, pos) IN
    IF found.kind = "throw" THEN Threw(d)
    ELSE IF found.kind = "null" THEN Returned(d, FALSE, <<>>)
    ELSE duplicateBlock(d, pos, d[found.index])

(***************************************************************************)
(* deleteBlock(editor, pos, node) and the command deleteBlockAt(pos)       *)
(***************************************************************************)

\* deleteBlock with the range ended at docSize in place of endPos.
deleteBlockToDocSize(d, pos, node) ==
    LET docSize == SizeOf(d) IN
    Returned(DeleteRange(d, pos, docSize), TRUE, <<showInfo("Block deleted")>>)

deleteBlock(d, pos, node) ==
    LET endPos == pos + NodeSize(node) IN
    Returned(DeleteRange(d, pos, endPos), TRUE, <<showInfo("Block deleted")>>)

deleteBlockAtCommand(d, pos) ==
    LET found == NodeAt(d, pos) IN
    IF found.kind = "throw" THEN Threw(d)
    ELSE IF found.kind = "null" THEN Returned(d, FALSE, <<>>)
    ELSE deleteBlock(d, pos, d[found.index])

(***************************************************************************)
(* resetBlockFormatting(editor, pos, node) and the command                 *)
(* resetBlockFormattingAt(pos)                                             *)
(***************************************************************************)

RECURSIVE FirstInset(_)
\* How far inside block b its first text position lies: one token for
\* b and one for every first child down to the first textblock.
FirstInset(b) == IF IsTextblock(b) THEN 1 ELSE 1 + FirstInset(Head(b.content))

RECURSIVE LastInset(_)
\* How far before the end of block b its last text position lies.
LastInset(b) ==
    IF IsTextblock(b) THEN 1 ELSE 1 + LastInset(b.content[Len(b.content)])

\* setTextSelection({ from, to }): both ends are brought into the range of
\* the document's text positions, from the start of the first textblock's
\* content to the end of the last textblock's content.
SetTextSelection(d, from, to) ==
    LET minPos == FirstInset(d[1])
        maxPos == SizeOf(d) - LastInset(d[Len(d)])
        clamp(p) == IF p < minPos THEN minPos ELSE IF p > maxPos THEN maxPos ELSE p
    IN  [from |-> clamp(from), to |-> clamp(to)]

\* The text of block i of d with the marks taken off every character that
\* lies between from and to.  Character k of block i lies between the
\* positions StartOf(d, i) + k and StartOf(d, i) + k + 1.
Unmarked(d, i, from, to) ==
    [k \in 1..Len(d[i].text) |->
        IF from <= StartOf(d, i) + k /\ StartOf(d, i) + k + 1 <= to
        THEN Inline(d[i].text[k].ch, {})
        ELSE d[i].text[k]]

\* unsetAllMarks() on the selection: tr.removeMark(from, to) with no mark
\* named removes every mark in the range; an empty selection is left alone.
UnsetAllMarks(d, selection) ==
    IF selection.from >= selection.to THEN d
    ELSE [i \in 1..Len(d) |->
             [d[i] EXCEPT !.text = Unmarked(d, i, selection.from, selection.to)]]

\* resetBlockFormatting that leaves the marks of the block's last character
\* (the range ended one position early).
resetBlockFormattingShort(d, pos, node) ==
    LET from == pos + 1
        to == pos + NodeSize(node) - 1
    IN  IF from >= to
        THEN Returned(d, TRUE, <<showInfo("No formatting to reset")>>)
        ELSE Returned(UnsetAllMarks(d, SetTextSelection(d, from, to - 1)), TRUE,
                      <<showInfo("Formatting reset")>>)

resetBlockFormatting(d, pos, node) ==
    LET from == pos + 1
        to == pos + NodeSize(node) - 1
    IN  IF from >= to
        THEN Returned(d, TRUE, <<showInfo("No formatting to reset")>>)
        ELSE Returned(UnsetAllMarks(d, SetTextSelection(d, from, to)), TRUE,
                      <<showInfo("Formatting reset")>>)

resetBlockFormattingAtCommand(d, pos) ==
    LET found == NodeAt(d, pos) IN
    IF found.kind = "throw" THEN Threw(d)
    ELSE IF found.kind = "null" THEN Returned(d, FALSE, <<>>)
    ELSE resetBlockFormatting(d, pos, d[found.index])

(***************************************************************************)
(* BlockColor: the command setBlockColorAt(pos, color)                     *)
(***************************************************************************)

\* BLOCK_COLORS: the palette's values, 'transparent' for Default.
BLOCK_COLORS == {"transparent", "#f1f1f0"}

\* setBlockColorAt that stores the value as it is given.
setBlockColorAtVerbatim(d, pos, color) ==
    LET found == NodeAt(d, pos) IN
    IF found.kind = "throw" THEN Threw(d)
    ELSE IF found.kind = "null" THEN Returned(d, FALSE, <<>>)
    ELSE Returned([d EXCEPT ![found.index].backgroundColor = color], TRUE, <<>>)

\* tr.setNodeMarkup(pos, undefined, { ...node.attrs, backgroundColor }):
\* the node keeps its type, its other attrs and its content.
setBlockColorAtCommand(d, pos, color) ==
    LET found == NodeAt(d, pos) IN
    IF found.kind = "throw" THEN Threw(d)
    ELSE IF found.kind = "null" THEN Returned(d, FALSE, <<>>)
    ELSE LET colorValue == IF color = "transparent" THEN Null ELSE color
         IN  Returned([d EXCEPT ![found.index].backgroundColor = colorValue],
                      TRUE, <<>>)

(***************************************************************************)
(* The document as HTML: getHTML and setContent, with the backgroundColor  *)
(* attribute of BlockColor rendered to and parsed from the element's style.*)
(***************************************************************************)

\* renderHTML of the backgroundColor attribute: the colour declared in the
\* element's style, Null when no style is rendered.
renderHTML(attributes) ==
    IF attributes.backgroundColor = Null \/ attributes.backgroundColor = "transparent"
    THEN Null
    ELSE attributes.backgroundColor

\* element.style.backgroundColor for a declared colour: the style
\* declaration gives a colour written in hex digits back as rgb(r, g, b).
StyleBackgroundColor(declared) ==
    IF declared = "#f1f1f0" THEN "rgb(241, 241, 240)" ELSE declared

\* parseHTML of the backgroundColor attribute:
\* element.style.backgroundColor || null
parseHTML(element) ==
    IF element.style = Null THEN Null ELSE StyleBackgroundColor(element.style)

RECURSIVE getHTML(_)
\* editor.getHTML(): one element for each node, its style rendered from the
\* node's attributes.
getHTML(d) ==
    [i \in 1..Len(d) |->
        [tag |-> d[i].type, level |-> d[i].level, style |-> renderHTML(d[i]),
         text |-> d[i].text, content |-> getHTML(d[i].content)]]

RECURSIVE setContent(_)
\* editor.commands.setContent(html): one node for each element, its
\* attributes parsed from the element.
setContent(html) ==
    [i \in 1..Len(html) |->
        [type |-> html[i].tag, level |-> html[i].level,
         backgroundColor |-> parseHTML(html[i]),
         text |-> html[i].text, content |-> setContent(html[i].content)]]

(***************************************************************************)
(* copyBlockToClipboard(editor, pos, node) and the command copyBlockAt(pos)*)
(* The command starts the copy and returns true without waiting for it.    *)
(***************************************************************************)

RECURSIVE TextContent(_), TextOfBlocks(_)
\* node.textContent: the characters of the node, those of its content in
\* their order for a node that holds blocks.
TextContent(node) ==
    IF IsTextblock(node) THEN [k \in 1..Len(node.text) |-> node.text[k].ch]
    ELSE TextOfBlocks(node.content)

TextOfBlocks(d) ==
    IF d = <<>> THEN <<>> ELSE TextContent(Head(d)) \o TextOfBlocks(Tail(d))

NoCopy == [stage |-> "none", pos |-> 0, plainText |-> <<>>, htmlContent |-> [tag |-> Null]]

\* getNodeHTML(editor, pos, node): the outerHTML of the node's element.
getNodeHTML(node) == getHTML(<<node>>)[1]

\* The copy up to its first await: the text is taken from the node, then
\* clipboard.write is called when the Clipboard API has ClipboardItem, and
\* clipboard.writeText otherwise.
copyBlockToClipboard(pos, node, hasClipboardItem) ==
    [stage |-> IF hasClipboardItem THEN "write" ELSE "writeText",
     pos |-> pos,
     plainText |-> TextContent(node),
     htmlContent |-> getNodeHTML(node)]

\* What the write would leave on the clipboard were the block read from
\* document d when the write is fulfilled: the block at the copy's pos
\* then, nothing when there is none.
WrittenAtSettle(copy, d) ==
    LET found == NodeAt(d, copy.pos) IN
    IF found.kind # "block" THEN [plain |-> <<>>, html |-> [tag |-> Null]]
    ELSE IF copy.stage = "write"
    THEN [plain |-> TextContent(d[found.index]), html |-> getNodeHTML(d[found.index])]
    ELSE [plain |-> TextContent(d[found.index]), html |-> [tag |-> Null]]

\* What the write the copy waits for leaves on the clipboard when it is
\* fulfilled: clipboard.write was given the ClipboardItem made of plainText
\* and htmlContent, clipboard.writeText is given plainText alone.  Both
\* are constants of the call; the document d of that time plays no part.
Written(copy, d) ==
    IF copy.stage = "write"
    THEN [plain |-> copy.plainText, html |-> copy.htmlContent]
    ELSE [plain |-> copy.plainText, html |-> [tag |-> Null]]

\* What the copy does when the write it waits for settles: a fulfilled
\* write is reported; a rejected clipboard.write falls back to
\* clipboard.writeText; a rejected writeText is reported as an error.
clipboardSettled(copy, fulfilled) ==
    IF copy.stage = "write"
    THEN IF fulfilled
         THEN [copy |-> NoCopy, notes |-> <<showInfo("Copied to clipboard")>>]
         ELSE [copy |-> [copy EXCEPT !.stage = "writeText"], notes |-> <<>>]
    ELSE IF fulfilled
         THEN [copy |-> NoCopy, notes |-> <<showInfo("Copied to clipboard (text only)")>>]
         ELSE [copy |-> NoCopy, notes |-> <<showError("Failed to copy to clipboard")>>]

\* copyBlockAt with the missing node let through: the command answers true
\* whether or not there is a node at pos.
copyBlockAtAlways(d, pos, hasClipboardItem) ==
    LET found == NodeAt(d, pos) IN
    IF found.kind = "throw"
    THEN [doc |-> d, ret |-> FALSE, threw |-> TRUE, notes |-> <<>>, copy |-> NoCopy]
    ELSE IF found.kind = "null"
    THEN [doc |-> d, ret |-> TRUE, threw |-> FALSE, notes |-> <<>>, copy |-> NoCopy]
    ELSE [doc |-> d, ret |-> TRUE, threw |-> FALSE, notes |-> <<>>,
          copy |-> copyBlockToClipboard(pos, d[found.index], hasClipboardItem)]

copyBlockAtCommand(d, pos, hasClipboardItem) ==
    LET found == NodeAt(d, pos) IN
    IF found.kind = "throw"
    THEN [doc |-> d, ret |-> FALSE, threw |-> TRUE, notes |-> <<>>, copy |-> NoCopy]
    ELSE IF found.kind = "null"
    THEN [doc |-> d, ret |-> FALSE, threw |-> FALSE, notes |-> <<>>, copy |-> NoCopy]
    ELSE [doc |-> d, ret |-> TRUE, threw |-> FALSE, notes |-> <<>>,
          copy |-> copyBlockToClipboard(pos, d[found.index], hasClipboardItem)]

(***************************************************************************)
(* isConversionValid(sourceType, targetType, targetAttrs, sourceAttrs)     *)
(* (src/src/utils/blockTypes.js).  The attrs are given by their level,     *)
(* Null when they have none; reason is Null when the result has none.      *)
(***************************************************************************)
ReasonAlreadyLevel == "Already this heading level"
ReasonAlreadyType == "Already this type"
ReasonListItem ==
    "List items cannot be converted directly. Convert the entire list instead."

isConversionValid(sourceType, targetType, targetLevel, sourceLevel) ==
    IF sourceType = targetType
    THEN IF targetType = "heading"
         THEN IF targetLevel # sourceLevel
              THEN [valid |-> TRUE, reason |-> Null]
              ELSE [valid |-> TRUE, reason |-> ReasonAlreadyLevel]
         ELSE [valid |-> TRUE, reason |-> ReasonAlreadyType]
    ELSE IF sourceType = "listItem"
    THEN [valid |-> FALSE, reason |-> ReasonListItem]
    ELSE IF sourceType = "codeBlock" /\ targetType # "paragraph"
    THEN [valid |-> TRUE, reason |-> Null]
    ELSE IF sourceType = "blockquote" /\ targetType \in {"bulletList", "orderedList"}
    THEN [valid |-> TRUE, reason |-> Null]
    ELSE [valid |-> TRUE, reason |-> Null]

(***************************************************************************)
(* convertBlockType(editor, pos, node, blockType)                          *)
(* (src/src/components/BlockContextMenu.vue).  The function selects the    *)
(* content of the block it is given, from pos + 1 to pos + node.nodeSize   *)
(* - 1, and runs the Tiptap command of the target type on the selection:   *)
(* setParagraph, setHeading and setCodeBlock (setNode), toggleBulletList   *)
(* and toggleOrderedList (toggleList), setBlockquote (wrapIn) and          *)
(* lift('blockquote').                                                     *)
(*                                                                         *)
(* The commands are modelled for a selection that lies in the text of one  *)
(* top-level textblock, or that is the selection of the content of a       *)
(* top-level blockquote holding one textblock, of a top-level list whose   *)
(* items hold one paragraph each, or of an item of such a list.  A         *)
(* conversion that first lifts the content out of a blockquote or a list   *)
(* (clearNodes) is modelled when the selection's head stays in the lifted  *)
(* text.  A conversion outside these cases is not taken.                   *)
(***************************************************************************)
BlockType(id, t, l) == [id |-> id, type |-> t, level |-> l]

\* blockTypes: the entries of the context menu's grid.
blockTypes ==
    { BlockType("paragraph", "paragraph", Null),
      BlockType("heading1", "heading", "1"),
      BlockType("heading2", "heading", "2"),
      BlockType("heading3", "heading", "3"),
      BlockType("heading4", "heading", "4"),
      BlockType("orderedList", "orderedList", Null),
      BlockType("bulletList", "bulletList", Null),
      BlockType("taskList", "taskList", Null),
      BlockType("codeBlock", "codeBlock", Null),
      BlockType("blockquote", "blockquote", Null),
      BlockType("callout", "callout", Null) }

ListTypes == {"bulletList", "orderedList"}

\* The command the switch of convertBlockType runs for a type: the editor
\* has no task list (editor.can().toggleTaskList is undefined), so the
\* taskList entry toggles a bullet list; callout runs the blockquote branch.
CommandType(type) ==
    IF type = "taskList" THEN "bulletList"
    ELSE IF type = "callout" THEN "blockquote"
    ELSE type

\* d with block i replaced by the blocks.
Replaced(d, i, blocks) == SubSeq(d, 1, i - 1) \o blocks \o SubSeq(d, i + 1, Len(d))

\* The marks taken off every character of txt.
WithoutMarks(txt) == [k \in 1..Len(txt) |-> Inline(txt[k].ch, {})]

\* tr.setBlockType building the new node without the old node's content.
RetypedEmpty(b, t, l, bg) == Block(t, l, bg, <<>>)

\* tr.setBlockType on the textblock b: the node's type and attrs are
\* replaced, its content is kept; a code block allows no marks, so they are
\* taken off its text.
Retyped(b, t, l, bg) ==
    Block(t, l, bg, IF t = "codeBlock" THEN WithoutMarks(b.text) ELSE b.text)

\* clearNodes on the textblock b: it becomes the default block, a paragraph
\* with default attrs.
Cleared(b) == Retyped(b, "paragraph", Null, Null)

ListItem(b) == Container("listItem", Null, <<b>>)

\* The list item's paragraph.
ItemParagraph(item) == item.content[1]

\* A top-level list whose items hold one paragraph each.
SimpleList(b) ==
    /\ b.type \in ListTypes
    /\ \A k \in 1..Len(b.content) :
          /\ b.content[k].type = "listItem"
          /\ Len(b.content[k].content) = 1
          /\ ItemParagraph(b.content[k]).type = "paragraph"

\* A blockquote that holds one textblock.
SimpleQuote(b) ==
    /\ b.type = "blockquote"
    /\ Len(b.content) = 1
    /\ IsTextblock(b.content[1])

\* joinListBackwards and joinListForwards for the list at index i: a list
\* of the same type directly before it is joined with it, then one directly
\* after it; the joined list keeps the attrs of the first.
Joined(a, b) == [a EXCEPT !.content = a.content \o b.content]

JoinLists(d, i) ==
    LET back == i > 1 /\ d[i - 1].type = d[i].type
        d1 == IF back
              THEN SubSeq(d, 1, i - 2) \o <<Joined(d[i - 1], d[i])>>
                   \o SubSeq(d, i + 1, Len(d))
              ELSE d
        j == IF back THEN i - 1 ELSE i
    IN  IF j < Len(d1) /\ d1[j + 1].type = d1[j].type
        THEN SubSeq(d1, 1, j - 1) \o <<Joined(d1[j], d1[j + 1])>>
             \o SubSeq(d1, j + 2, Len(d1))
        ELSE d1

\* What a conversion leaves: whether the model takes it, and the document.
Converted(d) == [taken |-> TRUE, doc |-> d]
NotTaken(d) == [taken |-> FALSE, doc |-> d]

\* The selection lies in the text of the top-level textblock i.  Every
\* command then acts on that textblock: its attrs are the ones setNode
\* copies, and the block range of the selection is the textblock.
\*   setNode            the textblock is given the type, and keeps its
\*                      backgroundColor;
\*   toggleList         a paragraph is wrapped in a list item and a list; a
\*                      heading or a code block cannot be, and is first made
\*                      a paragraph by clearNodes; the new list is joined
\*                      with a list of its type next to it;
\*   setBlockquote      the textblock is wrapped in a blockquote;
\*   lift('blockquote') no blockquote is active in the selection: nothing.
ConvertTextblock(d, i, t, l, snapshotType) ==
    LET b == d[i] IN
    IF t \in {"paragraph", "heading", "codeBlock"}
    THEN Converted(Replaced(d, i, <<Retyped(b, t, l, b.backgroundColor)>>))
    ELSE IF t \in ListTypes
    THEN LET p == IF b.type = "paragraph" THEN b ELSE Cleared(b)
             wrapped == Container(t, Null, <<ListItem(p)>>)
         IN  Converted(JoinLists(Replaced(d, i, <<wrapped>>), i))
    ELSE IF snapshotType = "blockquote"
    THEN Converted(d)
    ELSE Converted(Replaced(d, i, <<Container("blockquote", Null, <<b>>)>>))

\* setNode copies the attrs of the selection's parent when anchor and head
\* have the same parent, and none otherwise.  An end of the selection that
\* setTextSelection moved lies in text (inText); an end it left alone lies
\* in the selected node itself.  outer is the selected node's
\* backgroundColor, inner that of the textblock both ends lie in when there
\* is one such textblock.
CopiedColor(fromInText, toInText, outer, inner) ==
    IF fromInText # toInText THEN Null
    ELSE IF fromInText THEN inner
    ELSE outer

\* The selection is that of the content of the top-level blockquote i,
\* which holds the textblock c.
\*   setNode            c is given the type and the copied attrs;
\*   toggleList         a paragraph c is wrapped in a list inside the
\*                      blockquote; another c is lifted out of the
\*                      blockquote and made a paragraph by clearNodes, and
\*                      then wrapped;
\*   lift('blockquote') c is lifted out of the blockquote;
\*   setBlockquote      c is wrapped in a second blockquote.
ConvertQuote(d, i, selection, t, l, snapshotType) ==
    LET q == d[i]
        c == q.content[1]
        fromInText == selection.from # StartOf(d, i) + 1
        toInText == selection.to # StartOf(d, i + 1) - 1
        copied == CopiedColor(fromInText, toInText,
                              q.backgroundColor, c.backgroundColor)
        Holding(b) == [q EXCEPT !.content = <<b>>]
    IN  IF t \in {"paragraph", "heading", "codeBlock"}
        THEN Converted(Replaced(d, i, <<Holding(Retyped(c, t, l, copied))>>))
        ELSE IF t \in ListTypes
        THEN IF c.type = "paragraph"
             THEN Converted(Replaced(d, i,
                      <<Holding(Container(t, Null, <<ListItem(c)>>))>>))
             ELSE IF toInText
             THEN Converted(JoinLists(
                      Replaced(d, i, <<Container(t, Null, <<ListItem(Cleared(c))>>)>>),
                      i))
             ELSE NotTaken(d)
        ELSE IF snapshotType = "blockquote"
        THEN Converted(Replaced(d, i, <<c>>))
        ELSE Converted(Replaced(d, i,
                 <<Holding(Container("blockquote", Null, <<c>>))>>))

\* The list with the paragraph of item k replaced by p.
WithItemParagraph(list, k, p) ==
    [list EXCEPT !.content[k] = [list.content[k] EXCEPT !.content = <<p>>]]

\* The selection is that of the content of the top-level list i.
\*   setParagraph       the items' paragraphs are given the copied attrs;
\*   setHeading, setCodeBlock
\*                      a list item cannot start with such a block, so
\*                      clearNodes lifts every paragraph out of the list,
\*                      with default attrs; the type is then set where the
\*                      selection is: on all of them when both its ends lie
\*                      in text, on the last when only its head does;
\*   toggleList         the list's own type: liftListItem lifts every item's
\*                      paragraph out of the list; the other list type: the
\*                      list is given that type and default attrs, and is
\*                      joined with a list of that type next to it;
\*   setBlockquote      a list item's content cannot be wrapped: nothing;
\*   lift('blockquote') no blockquote is active in the selection: nothing.
ConvertList(d, i, selection, t, l) ==
    LET list == d[i]
        n == Len(list.content)
        para(k) == ItemParagraph(list.content[k])
        fromInText == selection.from # StartOf(d, i) + 1
        toInText == selection.to # StartOf(d, i + 1) - 1
        copied == CopiedColor(fromInText, toInText, list.backgroundColor,
                              IF n = 1 THEN para(1).backgroundColor ELSE Null)
    IN  IF t = "paragraph"
        THEN Converted(Replaced(d, i,
                 << [list EXCEPT !.content =
                       [k \in 1..n |->
                           [list.content[k] EXCEPT !.content =
                               <<Retyped(para(k), t, l, copied)>>]]] >>))
        ELSE IF t \in {"heading", "codeBlock"}
        THEN IF ~toInText THEN NotTaken(d)
             ELSE IF fromInText
             THEN Converted(Replaced(d, i,
                      [k \in 1..n |-> Retyped(Cleared(para(k)), t, l, copied)]))
             ELSE Converted(Replaced(d, i,
                      [k \in 1..n |-> IF k = n
                                      THEN Retyped(Cleared(para(k)), t, l, Null)
                                      ELSE Cleared(para(k))]))
        ELSE IF t = list.type
        THEN Converted(Replaced(d, i, [k \in 1..n |-> para(k)]))
        ELSE IF t \in ListTypes
        THEN Converted(JoinLists(
                 Replaced(d, i, <<Container(t, Null, list.content)>>), i))
        ELSE Converted(d)

\* The selection is that of the content of item k of the top-level list i.
\*   setParagraph       the item's paragraph is given the copied attrs;
\*   setHeading, setCodeBlock
\*                      clearNodes lifts the paragraph out of the list, which
\*                      is split around it, and the type is set on it when
\*                      the selection's head lies in its text;
\*   toggleList         the list's own type: liftListItem lifts the item's
\*                      paragraph out of the list, which is split around it;
\*                      the other list type: as for the whole list;
\*   setBlockquote      nothing.
ConvertListItem(d, i, k, selection, t, l) ==
    LET list == d[i]
        n == Len(list.content)
        item == list.content[k]
        p == ItemParagraph(item)
        itemStart == StartOf(d, i) + 1 + SizeOf(SubSeq(list.content, 1, k - 1))
        fromInText == selection.from # itemStart + 1
        toInText == selection.to # itemStart + NodeSize(item) - 1
        copied == CopiedColor(fromInText, toInText,
                              item.backgroundColor, p.backgroundColor)
        before == IF k > 1
                  THEN <<[list EXCEPT !.content = SubSeq(list.content, 1, k - 1)]>>
                  ELSE <<>>
        after == IF k < n
                 THEN <<[list EXCEPT !.content = SubSeq(list.content, k + 1, n)]>>
                 ELSE <<>>
    IN  IF t = "paragraph"
        THEN Converted(Replaced(d, i,
                 <<WithItemParagraph(list, k, Retyped(p, t, l, copied))>>))
        ELSE IF t \in {"heading", "codeBlock"}
        THEN IF toInText /\ ~fromInText
             THEN Converted(Replaced(d, i,
                      before \o <<Retyped(Cleared(p), t, l, Null)>>))
             ELSE NotTaken(d)
        ELSE IF t = list.type
        THEN Converted(Replaced(d, i, before \o <<p>> \o after))
        ELSE IF t \in ListTypes
        THEN Converted(JoinLists(
                 Replaced(d, i, <<Container(t, Null, list.content)>>), i))
        ELSE Converted(d)

\* The selection of the content of the node of the given size at start.
ContentSelection(d, start, size) == SetTextSelection(d, start + 1, start + size - 1)

\* The position before item k of the list at index i.
ItemStart(d, i, k) == StartOf(d, i) + 1 + SizeOf(SubSeq(d[i].content, 1, k - 1))

convertBlockType(d, pos, node, blockType) ==
    LET from == pos + 1
        to == pos + NodeSize(node) - 1
        selection == SetTextSelection(d, from, to)
        t == CommandType(blockType.type)
        l == blockType.level
        InText(i) == /\ IsTextblock(d[i])
                     /\ StartOf(d, i) < selection.from
                     /\ selection.to < StartOf(d, i + 1)
        IsContent(i) == /\ ~IsTextblock(d[i])
                        /\ selection = ContentSelection(d, StartOf(d, i), NodeSize(d[i]))
        IsItem(i, k) == /\ SimpleList(d[i])
                        /\ k \in 1..Len(d[i].content)
                        /\ selection = ContentSelection(d, ItemStart(d, i, k),
                                                        NodeSize(d[i].content[k]))
        Items == { ik \in (1..Len(d)) \X (1..SizeOf(d)) : IsItem(ik[1], ik[2]) }
    IN  IF \E i \in 1..Len(d) : InText(i)
        THEN ConvertTextblock(d, CHOOSE i \in 1..Len(d) : InText(i), t, l, node.type)
        ELSE IF \E i \in 1..Len(d) : IsContent(i)
        THEN LET i == CHOOSE j \in 1..Len(d) : IsContent(j) IN
             IF SimpleQuote(d[i]) THEN ConvertQuote(d, i, selection, t, l, node.type)
             ELSE IF SimpleList(d[i]) THEN ConvertList(d, i, selection, t, l)
             ELSE NotTaken(d)
        ELSE IF Items # {}
        THEN LET ik == CHOOSE x \in Items : TRUE IN
             ConvertListItem(d, ik[1], ik[2], selection, t, l)
        ELSE NotTaken(d)

(***************************************************************************)
(* The state machine of the commands.                                      *)
(***************************************************************************)
NoCall == [op |-> "none", pos |-> 0, targetPos |-> 0, color |-> Null,
           node |-> [type |-> Null], blockType |-> Null, ret |-> FALSE,
           threw |-> FALSE, notes |-> <<>>, before |-> <<>>]

Called(op, pos, targetPos, r) ==
    [op |-> op, pos |-> pos, targetPos |-> targetPos, color |-> Null,
     node |-> [type |-> Null], blockType |-> Null, ret |-> r.ret,
     threw |-> r.threw, notes |-> r.notes, before |-> doc]

NoConversion == [sourceType |-> Null, targetType |-> Null,
                 targetLevel |-> Null, sourceLevel |-> Null]
NoValidation == [valid |-> FALSE, reason |-> "not called"]

\* null where a node is expected, and where the menu's block is.
NoNode == [type |-> Null]
NoBlockInfo == [node |-> NoNode, pos |-> -1]

\* No text/html part: what a text-only write leaves of it.
NoHTML == [tag |-> Null]

\* Nothing has been written to the clipboard.
NoItem == [plain |-> <<>>, html |-> NoHTML]

\* view.dragging when nothing is dragged.
NoDrag == [pos |-> -1, node |-> NoNode, before |-> <<>>]

\* No drag has been made and nothing has been copied: the flags of the
\* components are false (ref(false)) and no timeout is pending.
HandleAtRest ==
    /\ clipboard = NoItem
    /\ isDragging = FALSE
    /\ menuIsDragging = FALSE
    /\ isMenuOpen = FALSE
    /\ editorTimers = 0
    /\ menuTimers = 0
    /\ gesture = "idle"
    /\ dragged = NoDrag

\* The context menu is closed and the drag handle is at no node.
MenuClosed ==
    /\ currentNode = NoNode
    /\ currentNodePos = -1
    /\ isOpen = FALSE
    /\ blockInfo = NoBlockInfo

NoArgs == [sourcePos |-> Undefined, targetPos |-> Undefined,
           nodeSize |-> Num(1), docSize |-> Num(0)]
NoResult == [isValid |-> FALSE, reason |-> "not called"]

\* The positions a command is given: every position of the document, one
\* before it and one after it, except those before or inside a text node
\* (there nodeAt gives the text node, not a block).
BlockPositions(d) == { p \in -1..(SizeOf(d) + 1) : NodeAt(d, p).kind # "text" }
\* The positions a drop can name.
DropPositions(d) == -1..(SizeOf(d) + 1)

Init ==
    /\ doc = DefaultContent
    /\ call = NoCall
    /\ vArgs = NoArgs
    /\ vResult = NoResult
    /\ copying = NoCopy
    /\ cvArgs = NoConversion
    /\ cvResult = NoValidation
    /\ MenuClosed
    /\ HandleAtRest

\* editor.commands.moveBlockTo(sourcePos, targetPos)
moveBlockTo(sourcePos, targetPos) ==
    /\ call = NoCall
    /\ LET r == moveBlock(doc, sourcePos, targetPos) IN
           /\ Len(r.doc) <= MaxBlocks
           /\ doc' = r.doc
           /\ call' = Called("moveBlock", sourcePos, targetPos, r)
    /\ UNCHANGED <<otherVars, copying>>

\* editor.commands.duplicateBlockAt(pos)
duplicateBlockAt(pos) ==
    /\ call = NoCall
    /\ LET r == duplicateBlockAtCommand(doc, pos) IN
           /\ Len(r.doc) <= MaxBlocks
           /\ doc' = r.doc
           /\ call' = Called("duplicateBlock", pos, 0, r)
    /\ UNCHANGED <<otherVars, copying>>

\* editor.commands.deleteBlockAt(pos)
deleteBlockAt(pos) ==
    /\ call = NoCall
    /\ LET r == deleteBlockAtCommand(doc, pos) IN
           /\ doc' = r.doc
           /\ call' = Called("deleteBlock", pos, 0, r)
    /\ UNCHANGED <<otherVars, copying>>

\* The command has returned to its caller and its notifications are taken
\* down; the editor waits for the next command.
NotificationRemoved ==
    /\ call # NoCall
    /\ call' = NoCall
    /\ UNCHANGED <<doc, otherVars, copying>>

\* Commands run to completion one at a time: a command is given its
\* positions when the last one has returned.
Positions == IF call = NoCall THEN BlockPositions(doc) ELSE {}
Drops == IF call = NoCall THEN DropPositions(doc) ELSE {}

Next ==
    \/ \E s \in Positions, t \in Drops : moveBlockTo(s, t)
    \/ \E p \in Positions : duplicateBlockAt(p)
    \/ \E p \in Positions : deleteBlockAt(p)
    \/ NotificationRemoved

Spec == Init /\ [][Next]_vars

(***************************************************************************)
(* SpecCommands: every command of BlockOperations and of BlockColor that   *)
(* is given a block position, run one after another, and the clipboard     *)
(* writes of the copies settling in between.                               *)
(***************************************************************************)

\* editor.commands.resetBlockFormattingAt(pos)
resetBlockFormattingAt(pos) ==
    /\ call = NoCall
    /\ LET r == resetBlockFormattingAtCommand(doc, pos) IN
           /\ doc' = r.doc
           /\ call' = Called("resetBlockFormatting", pos, 0, r)
    /\ UNCHANGED <<otherVars, copying>>

\* editor.commands.setBlockColorAt(pos, color)
setBlockColorAt(pos, color) ==
    /\ call = NoCall
    /\ LET r == setBlockColorAtCommand(doc, pos, color) IN
           /\ doc' = r.doc
           /\ call' = [Called("setBlockColorAt", pos, 0, r) EXCEPT !.color = color]
    /\ UNCHANGED <<otherVars, copying>>

\* editor.commands.copyBlockAt(pos); a copy is started when no earlier
\* one is waiting for the clipboard.
copyBlockAt(pos, hasClipboardItem) ==
    /\ call = NoCall
    /\ copying = NoCopy
    /\ cvArgs = NoConversion
    /\ cvResult = NoValidation
    /\ MenuClosed
    /\ LET r == copyBlockAtCommand(doc, pos, hasClipboardItem) IN
           /\ doc' = r.doc
           /\ call' = Called("copyBlock", pos, 0, r)
           /\ copying' = r.copy
    /\ UNCHANGED otherVars

\* The promise of clipboard.write or clipboard.writeText settles.
ClipboardSettled(fulfilled) ==
    /\ call = NoCall
    /\ copying # NoCopy
    /\ LET r == clipboardSettled(copying, fulfilled) IN
           /\ copying' = r.copy
           /\ call' = Called("clipboardSettled", 0, 0, Returned(doc, fulfilled, r.notes))
    /\ clipboard' = IF fulfilled THEN Written(copying, doc) ELSE clipboard
    /\ UNCHANGED <<doc, vArgs, vResult, cvArgs, cvResult, menuVars, dragVars>>

\* The positions the commands are given, also while a copy waits for the
\* clipboard.
CommandPositions == Positions

NextCommands ==
    \/ \E s \in CommandPositions, t \in Drops :
           moveBlockTo(s, t) /\ Len(doc') <= MaxCommandBlocks
    \/ \E p \in CommandPositions :
           duplicateBlockAt(p) /\ Len(doc') <= MaxCommandBlocks
    \/ \E p \in CommandPositions : deleteBlockAt(p)
    \/ \E p \in CommandPositions : resetBlockFormattingAt(p)
    \/ \E p \in CommandPositions, c \in BLOCK_COLORS : setBlockColorAt(p, c)
    \/ \E p \in CommandPositions, h \in BOOLEAN : copyBlockAt(p, h)
    \/ \E f \in BOOLEAN : ClipboardSettled(f)
    \/ NotificationRemoved

SpecCommands == Init /\ [][NextCommands]_vars

(***************************************************************************)
(* SpecValidate: validateDropPosition on arbitrary argument values.        *)
(***************************************************************************)
JsValues == { Half(t) : t \in -2..(2 * MaxPos + 2) } \cup {NaN, Undefined, Str}

InitValidate ==
    /\ doc = DefaultContent
    /\ call = NoCall
    /\ vArgs \in [sourcePos : JsValues, targetPos : JsValues,
                  nodeSize : { Num(n) : n \in 1..MaxNodeSize },
                  docSize : { Num(n) : n \in 0..MaxPos }]
    /\ vResult = NoResult
    /\ copying = NoCopy
    /\ cvArgs = NoConversion
    /\ cvResult = NoValidation
    /\ MenuClosed
    /\ HandleAtRest

ValidateDropPosition ==
    /\ vResult = NoResult
    /\ vResult' = validateDropPosition(vArgs.sourcePos, vArgs.targetPos,
                                       vArgs.nodeSize, vArgs.docSize)
    /\ UNCHANGED <<doc, call, vArgs, copying, cvArgs, cvResult, menuVars, sideVars>>

NextValidate == ValidateDropPosition

SpecValidate == InitValidate /\ [][NextValidate]_vars

(***************************************************************************)
(* SpecConversion: isConversionValid on every pair of block types and      *)
(* heading levels.                                                         *)
(***************************************************************************)
\* SUPPORTED_BLOCK_TYPES
SUPPORTED_BLOCK_TYPES ==
    {"paragraph", "heading", "bulletList", "orderedList", "blockquote",
     "codeBlock", "listItem"}

\* The levels of the heading entries of BLOCK_TYPES, and Null for attrs
\* without a level.
Levels == {"1", "2", "3", Null}

InitConversion ==
    /\ doc = DefaultContent
    /\ call = NoCall
    /\ vArgs = NoArgs
    /\ vResult = NoResult
    /\ copying = NoCopy
    /\ cvArgs \in [sourceType : SUPPORTED_BLOCK_TYPES, targetType : SUPPORTED_BLOCK_TYPES,
                   targetLevel : Levels, sourceLevel : Levels]
    /\ cvResult = NoValidation
    /\ MenuClosed
    /\ HandleAtRest

IsConversionValid ==
    /\ cvResult = NoValidation
    /\ cvResult' = isConversionValid(cvArgs.sourceType, cvArgs.targetType,
                                     cvArgs.targetLevel, cvArgs.sourceLevel)
    /\ UNCHANGED <<doc, call, vArgs, vResult, copying, cvArgs, menuVars, sideVars>>

NextConversion == IsConversionValid

SpecConversion == InitConversion /\ [][NextConversion]_vars

(***************************************************************************)
(* SpecMenu: the block context menu.  The drag handle reports the node the *)
(* pointer is at, the menu is opened for that node and keeps it, the       *)
(* document is edited (deleteBlockAt) while the menu is open or closed,    *)
(* and an entry of the grid is clicked.  The Turn Into submenu is asked    *)
(* for a conversion of a node of the document.                             *)
(***************************************************************************)

\* The nodes the drag handle reports, with their positions: the top-level
\* blocks and the items of the top-level lists (SUPPORTED_BLOCK_TYPES names
\* listItem among them), as they are in document d.
HandleNodes(d) ==
    { [node |-> d[i], pos |-> StartOf(d, i)] : i \in 1..Len(d) }
    \cup UNION { { [node |-> d[i].content[k], pos |-> ItemStart(d, i, k)] :
                       k \in 1..Len(d[i].content) } :
                 i \in { j \in 1..Len(d) : SimpleList(d[j]) } }

\* TiptapEditor.handleDragHandleNodeChange({ node, pos })
handleDragHandleNodeChange(node, pos) ==
    /\ currentNode' = node
    /\ currentNodePos' = pos
    /\ UNCHANGED <<doc, call, vArgs, vResult, copying, cvArgs, cvResult,
                   isOpen, blockInfo, sideVars>>

\* TiptapEditor.handleOpenContextMenu() and BlockContextMenu.open(refEl, block)
handleOpenContextMenu ==
    /\ currentNode # NoNode
    /\ blockInfo' = [node |-> currentNode, pos |-> currentNodePos]
    /\ isOpen' = TRUE
    /\ UNCHANGED <<doc, call, vArgs, vResult, copying, cvArgs, cvResult,
                   currentNode, currentNodePos, sideVars>>

\* BlockContextMenu.close(), from a click outside the menu or Escape.
close ==
    /\ isOpen
    /\ isOpen' = FALSE
    /\ blockInfo' = NoBlockInfo
    /\ UNCHANGED <<doc, call, vArgs, vResult, copying, cvArgs, cvResult,
                   currentNode, currentNodePos, sideVars>>

\* BlockContextMenu.handleTypeClick(blockType): the block the menu was
\* opened for is converted, and the menu closes.
handleTypeClick(blockType) ==
    /\ call = NoCall
    /\ isOpen
    /\ LET r == convertBlockType(doc, blockInfo.pos, blockInfo.node, blockType) IN
           /\ r.taken
           /\ doc' = r.doc
           /\ call' = [Called("convertBlockType", blockInfo.pos, 0,
                              Returned(r.doc, TRUE, <<>>))
                          EXCEPT !.node = blockInfo.node, !.blockType = blockType]
    /\ isOpen' = FALSE
    /\ blockInfo' = NoBlockInfo
    /\ UNCHANGED <<vArgs, vResult, copying, cvArgs, cvResult,
                   currentNode, currentNodePos, sideVars>>

\* BLOCK_TYPES: the entries of the Turn Into submenu.
BLOCK_TYPES ==
    { BlockType("paragraph", "paragraph", Null),
      BlockType("heading1", "heading", "1"),
      BlockType("heading2", "heading", "2"),
      BlockType("heading3", "heading", "3"),
      BlockType("bulletList", "bulletList", Null),
      BlockType("orderedList", "orderedList", Null),
      BlockType("codeBlock", "codeBlock", Null),
      BlockType("blockquote", "blockquote", Null) }

emit(event, payload) == [type |-> event, message |-> payload]

\* TurnIntoSubmenu.selectType(blockType) for the block props.blockInfo: the
\* conversion is validated; an invalid one emits conversionError with the
\* reason, a valid one emits typeSelected; the submenu closes.
selectType(info, blockType) ==
    /\ call = NoCall
    /\ LET validation == isConversionValid(info.node.type, blockType.type,
                                           blockType.level, info.node.level)
           emitted == IF ~validation.valid
                      THEN <<emit("conversionError", validation.reason), emit("close", Null)>>
                      ELSE <<emit("typeSelected", blockType.id), emit("close", Null)>>
       IN  call' = [Called("selectType", info.pos, 0,
                           Returned(doc, validation.valid, emitted))
                       EXCEPT !.node = info.node, !.blockType = blockType]
    /\ UNCHANGED <<doc, otherVars, copying>>

\* The document is edited and an entry of the grid is clicked when the
\* last command has returned and the pointer has left the editor's content
\* (the drag handle has reported no node).  The positions of the top-level
\* blocks, for the commands run while the menu is in use:
MenuPositions ==
    IF call = NoCall /\ currentNode = NoNode
    THEN { StartOf(doc, i) : i \in 1..Len(doc) }
    ELSE {}

\* The entries of the grid that can be clicked.
GridEntries == IF call = NoCall /\ currentNode = NoNode THEN blockTypes ELSE {}

\* The blocks the Turn Into submenu is shown for, while the grid is closed.
TurnIntoBlocks == IF call = NoCall /\ MenuClosed THEN HandleNodes(doc) ELSE {}

NextMenu ==
    \/ \E h \in HandleNodes(doc) : handleDragHandleNodeChange(h.node, h.pos)
    \/ handleDragHandleNodeChange(NoNode, -1)
    \/ handleOpenContextMenu
    \/ close
    \/ \E blockType \in GridEntries : handleTypeClick(blockType)
    \/ \E h \in TurnIntoBlocks, blockType \in BLOCK_TYPES : selectType(h, blockType)
    \/ \E p \in MenuPositions : deleteBlockAt(p)
    \/ NotificationRemoved

SpecMenu == Init /\ [][NextMenu]_vars

(***************************************************************************)
(* SpecColor: the background colour of a block through getHTML and         *)
(* setHTML.  BlockColor renders the attribute into the style of the        *)
(* block's element and parses it back from element.style.                  *)
(***************************************************************************)

\* setHTML(html) given what getHTML() returned: the document is saved and
\* loaded again.
setHTML ==
    /\ call = NoCall
    /\ doc' = setContent(getHTML(doc))
    /\ call' = Called("setHTML", 0, 0, Returned(doc, TRUE, <<>>))
    /\ UNCHANGED <<otherVars, copying>>

NextColor ==
    \/ \E p \in Positions, c \in BLOCK_COLORS : setBlockColorAt(p, c)
    \/ setHTML
    \/ NotificationRemoved

SpecColor == Init /\ [][NextColor]_vars

(***************************************************************************)
(* SpecDrag: the drag handle.  The handle is moved over the blocks         *)
(* (handleDragHandleNodeChange), dragged (handleDragStart and              *)
(* handleDragEnd of TiptapEditor and of DragHandleMenu, with the timeouts  *)
(* their handleDragEnd sets) and clicked (DragHandleMenu.handleClick).     *)
(* The components bind no drop handler: the block is moved by the editor   *)
(* view's own drop handling, which deletes the dragged selection and       *)
(* inserts the dragged slice at the drop point.  A block's colour is       *)
(* changed while it is dragged.                                            *)
(***************************************************************************)

\* The timeouts of one component pending at a time.
MaxTimers == 2

\* dropPoint(doc, pos, slice) for a slice of one whole block: a position
\* between blocks is kept; inside a textblock the block does not fit, and
\* the point is before that textblock when pos is in the first half of its
\* content, after it otherwise.
dropPoint(d, pos) ==
    IF pos = SizeOf(d) \/ BlockStartingAt(d, pos) # 0 THEN pos
    ELSE LET i == BlockHolding(d, pos) IN
         IF 2 * pos <= 2 * StartOf(d, i) + NodeSize(d[i])
         THEN StartOf(d, i)
         ELSE StartOf(d, i + 1)

\* Document d with block node put in at the block boundary pos.
InsertBlock(d, pos, node) ==
    LET k == Cardinality({ i \in 1..Len(d) : StartOf(d, i) < pos })
    IN  SubSeq(d, 1, k) \o <<node>> \o SubSeq(d, k + 1, Len(d))

\* A drop that leaves the dragged selection where it is and inserts the
\* slice (a drag that copies).
dropCopies(d, source, target) == InsertBlock(d, dropPoint(d, target), source.node)

\* The view's drop of the slice source.node, dragged from the selection at
\* source.pos, at the position target under the pointer:
\* tr.deleteSelection(), then the slice is inserted at the drop point
\* mapped through the deletion.
drop(d, source, target) ==
    LET insertPos == dropPoint(d, target)
        to == source.pos + NodeSize(d[BlockStartingAt(d, source.pos)])
        pos == IF insertPos >= to THEN insertPos - (to - source.pos) ELSE insertPos
    IN  InsertBlock(DeleteRange(d, source.pos, to), pos, source.node)

\* dragstart on the handle shown at a block of the document: the view is
\* given the block as its selection and as the dragged slice, and both
\* components set their flag.
DragStart ==
    /\ gesture = "idle"
    /\ editorTimers < MaxTimers
    /\ [node |-> currentNode, pos |-> currentNodePos] \in HandleNodes(doc)
    /\ gesture' = "dragging"
    /\ dragged' = [pos |-> currentNodePos, node |-> currentNode, before |-> doc]
    /\ isDragging' = TRUE
    /\ menuIsDragging' = TRUE
    /\ UNCHANGED <<doc, call, vArgs, vResult, copying, cvArgs, cvResult, menuVars,
                   clipboard, isMenuOpen, editorTimers, menuTimers>>

\* drop on the editor at position targetPos.
Drop(targetPos) ==
    /\ gesture = "dragging"
    /\ call = NoCall
    /\ doc' = drop(doc, dragged, targetPos)
    /\ call' = [Called("drop", dragged.pos, targetPos, Returned(doc, TRUE, <<>>))
                   EXCEPT !.node = dragged.node]
    /\ gesture' = "dropped"
    /\ UNCHANGED <<vArgs, vResult, copying, cvArgs, cvResult, menuVars, clipboard,
                   isDragging, menuIsDragging, isMenuOpen, editorTimers, menuTimers,
                   dragged>>

\* A setTimeout whose callback is never run.
setTimeoutDropped(pending) == pending

\* setTimeout(callback, delay): one more timeout is pending.
setTimeout(pending) == pending + 1

\* dragend, after a drop or without one: TiptapEditor.handleDragEnd and
\* DragHandleMenu.handleDragEnd each set a timeout that clears the flag.
DragEnd ==
    /\ gesture \in {"dragging", "dropped"}
    /\ editorTimers' = setTimeout(editorTimers)
    /\ menuTimers' = setTimeout(menuTimers)
    /\ gesture' = "released"
    /\ dragged' = NoDrag
    /\ UNCHANGED <<doc, call, vArgs, vResult, copying, cvArgs, cvResult, menuVars,
                   clipboard, isDragging, menuIsDragging, isMenuOpen>>

\* The 50 ms timeout of DragHandleMenu.handleDragEnd fires.  The click of
\* the release, when there is one, comes before the timeout set at its
\* dragend ("small delay to prevent click event from firing"): until the
\* release is settled only timeouts of earlier drags fire.
MenuTimeout ==
    /\ menuTimers > (IF gesture = "released" THEN 1 ELSE 0)
    /\ menuTimers' = menuTimers - 1
    /\ menuIsDragging' = FALSE
    /\ UNCHANGED <<doc, call, vArgs, vResult, copying, cvArgs, cvResult, menuVars,
                   clipboard, isDragging, isMenuOpen, editorTimers, gesture, dragged>>

\* The 100 ms timeout of TiptapEditor.handleDragEnd fires, after the 50 ms
\* timeout set at the same dragend.
EditorTimeout ==
    /\ editorTimers > menuTimers
    /\ editorTimers' = editorTimers - 1
    /\ isDragging' = FALSE
    /\ UNCHANGED <<doc, call, vArgs, vResult, copying, cvArgs, cvResult, menuVars,
                   clipboard, menuIsDragging, isMenuOpen, menuTimers, gesture, dragged>>

\* DragHandleMenu.handleClick(event), for the click of the mouse button's
\* release after a drag and for any later click on the handle.  A click
\* taken as the end of a drag clears the flag; any other click emits
\* openMenu, which TiptapEditor answers with handleOpenContextMenu.
handleClick ==
    /\ gesture \in {"idle", "released"}
    /\ call = NoCall
    /\ gesture' = "idle"
    /\ IF menuIsDragging
       THEN /\ menuIsDragging' = FALSE
            /\ call' = Called("handleClick", 0, 0, Returned(doc, FALSE, <<>>))
            /\ UNCHANGED <<isMenuOpen, isOpen, blockInfo>>
       ELSE /\ isMenuOpen' = TRUE
            /\ call' = Called("handleClick", 0, 0,
                              Returned(doc, TRUE, <<emit("openMenu", Null)>>))
            /\ IF currentNode # NoNode
               THEN /\ blockInfo' = [node |-> currentNode, pos |-> currentNodePos]
                    /\ isOpen' = TRUE
               ELSE UNCHANGED <<isOpen, blockInfo>>
            /\ UNCHANGED menuIsDragging
    /\ UNCHANGED <<doc, vArgs, vResult, copying, cvArgs, cvResult, currentNode,
                   currentNodePos, clipboard, isDragging, editorTimers, menuTimers,
                   dragged>>

\* The browser delivers no click for the release that ended the drag.
NoClick ==
    /\ gesture = "released"
    /\ gesture' = "idle"
    /\ UNCHANGED <<doc, call, vArgs, vResult, copying, cvArgs, cvResult, menuVars,
                   clipboard, isDragging, menuIsDragging, isMenuOpen, editorTimers,
                   menuTimers, dragged>>

\* The positions under the pointer at a drop.
DropTargets == 0..SizeOf(doc)

\* The blocks whose colour is changed while a block is dragged.
DragPositions ==
    IF call = NoCall /\ gesture = "dragging"
    THEN { StartOf(doc, i) : i \in 1..Len(doc) }
    ELSE {}

NextDrag ==
    \/ \E h \in HandleNodes(doc) : handleDragHandleNodeChange(h.node, h.pos)
    \/ handleDragHandleNodeChange(NoNode, -1)
    \/ DragStart
    \/ \E t \in DropTargets : Drop(t)
    \/ DragEnd
    \/ MenuTimeout
    \/ EditorTimeout
    \/ handleClick
    \/ NoClick
    \/ close
    \/ \E p \in DragPositions, c \in BLOCK_COLORS : setBlockColorAt(p, c)
    \/ NotificationRemoved

SpecDrag == Init /\ [][NextDrag]_vars

\* The timeouts set are run by the event loop, and the browser settles the
\* release of a drag, with a click or without one.
SpecDragFair ==
    SpecDrag /\ WF_vars(MenuTimeout) /\ WF_vars(EditorTimeout)
             /\ WF_vars(handleClick \/ NoClick)

(***************************************************************************)
(* SpecEdit: the six commands that change the document, run one after      *)
(* another on the top-level blocks: moveBlockTo, duplicateBlockAt,         *)
(* deleteBlockAt, resetBlockFormattingAt, setBlockColorAt, and             *)
(* convertBlockType from the grid of the context menu.                     *)
(***************************************************************************)

\* The size of the documents edited.
MaxDocSize == 12

\* The context menu is opened for the block the handle is at and an entry
\* of its grid is clicked before anything else is done: handleTypeClick
\* with the block as the menu's blockInfo.
convertBlockTypeOf(info, blockType) ==
    /\ call = NoCall
    /\ LET r == convertBlockType(doc, info.pos, info.node, blockType) IN
           /\ r.taken
           /\ doc' = r.doc
           /\ call' = [Called("convertBlockType", info.pos, 0,
                              Returned(r.doc, TRUE, <<>>))
                          EXCEPT !.node = info.node, !.blockType = blockType]
    /\ UNCHANGED <<otherVars, copying>>

\* The positions of the top-level blocks.
EditPositions ==
    IF call = NoCall THEN { StartOf(doc, i) : i \in 1..Len(doc) } ELSE {}

\* The drop positions of the moves: between the top-level blocks and inside
\* the top-level textblocks.
EditTargets ==
    { p \in 0..SizeOf(doc) :
        BlockHolding(doc, p) = 0 \/ IsTextblock(doc[BlockHolding(doc, p)]) }

\* The top-level textblocks, whose formatting is reset.
TextblockPositions ==
    { p \in EditPositions : IsTextblock(doc[BlockStartingAt(doc, p)]) }

\* The blocks the menu is opened for.
EditBlocks == IF call = NoCall THEN HandleNodes(doc) ELSE {}

NextEdit ==
    \/ \E s \in EditPositions, t \in EditTargets :
           moveBlockTo(s, t)
               /\ Len(doc') <= MaxCommandBlocks /\ SizeOf(doc') <= MaxDocSize
    \/ \E p \in EditPositions :
           duplicateBlockAt(p)
               /\ Len(doc') <= MaxCommandBlocks /\ SizeOf(doc') <= MaxDocSize
    \/ \E p \in EditPositions : deleteBlockAt(p)
    \/ \E p \in TextblockPositions : resetBlockFormattingAt(p)
    \/ \E p \in EditPositions, c \in BLOCK_COLORS : setBlockColorAt(p, c)
    \/ \E h \in EditBlocks, blockType \in blockTypes :
           convertBlockTypeOf(h, blockType)
               /\ Len(doc') <= MaxCommandBlocks /\ SizeOf(doc') <= MaxDocSize
    \/ NotificationRemoved

SpecEdit == Init /\ [][NextEdit]_vars

(***************************************************************************)
(* Properties.  call.before is the document the last command was given,    *)
(* doc the document it left.                                               *)
(***************************************************************************)

\* What nodeAt gave the last command for its position.
CallNode == NodeAt(call.before, call.pos)

\* The last command was moveBlock and its source position held a block.
MovedABlock == call.op = "moveBlock" /\ CallNode.kind = "block"

\* What validateDropPosition answers for the drop of the last moveBlock.
CallValidation ==
    validateDropPosition(Num(call.pos), Num(call.targetPos),
                         Num(CallNode.nodeSize), Num(SizeOf(call.before)))

\* Sequence d without its element i.
Without(d, i) == SubSeq(d, 1, i - 1) \o SubSeq(d, i + 1, Len(d))

\* C1: a moveBlock whose drop validateDropPosition rejects returns false
\* and leaves the document exactly as it was.
C1_InvalidDropPreservesDocument ==
    (MovedABlock /\ ~CallValidation.isValid)
        => (~call.ret /\ ~call.threw /\ doc = call.before)

\* C1 witness: a drop outside the document has been rejected on a document
\* of two or more blocks.
C1_Witness ==
    /\ MovedABlock
    /\ ~CallValidation.isValid
    /\ CallValidation.reason = ReasonOutOfBounds
    /\ Len(call.before) >= 2
    /\ doc = call.before

\* The position at which the moved block is to start.
ResolvedTarget ==
    IF call.targetPos > call.pos THEN call.targetPos - CallNode.nodeSize
    ELSE call.targetPos

\* C2 as claimed: after every accepted moveBlock on a document of two or
\* more blocks the block count is the same, the moved block is unchanged
\* and starts at the resolved target position, and the other blocks are
\* unchanged.
C2_MovePreservesContentAndCount ==
    (MovedABlock /\ CallValidation.isValid /\ Len(call.before) >= 2)
        => /\ call.ret
           /\ Len(doc) = Len(call.before)
           /\ NodeAt(doc, ResolvedTarget).kind = "block"
           /\ doc[NodeAt(doc, ResolvedTarget).index] = call.before[CallNode.index]
           /\ Without(doc, NodeAt(doc, ResolvedTarget).index)
                  = Without(call.before, CallNode.index)

C6_NoOpDropIsSilent ==
    /\ (/\ MovedABlock
        /\ \/ call.targetPos = call.pos
           \/ call.targetPos = call.pos + CallNode.nodeSize)
           => (~call.ret /\ call.notes = <<>>)
    /\ (/\ call.op = "moveBlock" /\ ~call.threw /\ ~call.ret
        /\ ~(/\ CallNode.kind = "block"
             /\ \/ call.targetPos = call.pos
                \/ call.targetPos = call.pos + CallNode.nodeSize))
           => call.notes # <<>>

\* C8: duplicateBlock on the block at pos leaves one block more: the copy,
\* equal to the original in type, attrs and content, starts at
\* pos + nodeSize, and the original and every other block are unchanged.
C8_DuplicateInsertsIdenticalCopy ==
    (call.op = "duplicateBlock" /\ CallNode.kind = "block")
        => /\ call.ret
           /\ Len(doc) = Len(call.before) + 1
           /\ NodeAt(doc, call.pos + CallNode.nodeSize).kind = "block"
           /\ NodeAt(doc, call.pos + CallNode.nodeSize).index = CallNode.index + 1
           /\ doc[CallNode.index + 1] = call.before[CallNode.index]
           /\ Without(doc, CallNode.index + 1) = call.before

\* C8 witness: a block with marked text that is not the last block has
\* been duplicated.
C8_Witness ==
    /\ call.op = "duplicateBlock" /\ CallNode.kind = "block" /\ call.ret
    /\ CallNode.index < Len(call.before)
    /\ \E k \in 1..Len(call.before[CallNode.index].text) :
           call.before[CallNode.index].text[k].marks # {}
    /\ call.before[CallNode.index + 1] # call.before[CallNode.index]

\* C9: deleteBlock on a block of a document of two or more blocks removes
\* that block and no other: one block fewer, the rest as they were and in
\* their order.
C9_DeleteRemovesExactlyTheBlock ==
    (call.op = "deleteBlock" /\ CallNode.kind = "block" /\ Len(call.before) >= 2)
        => /\ call.ret
           /\ Len(doc) = Len(call.before) - 1
           /\ doc = Without(call.before, CallNode.index)
           /\ SizeOf(doc) = SizeOf(call.before) - CallNode.nodeSize

\* C9 witness: the middle block of three has been deleted.
C9_Witness ==
    /\ call.op = "deleteBlock" /\ CallNode.kind = "block" /\ call.ret
    /\ Len(call.before) = 3 /\ CallNode.index = 2
    /\ call.before[1] # call.before[3]

\* C10: the document always holds a block, and deleteBlock on the last
\* remaining block is guarded: it is refused and the block stays.  The
\* first conjunct holds (deleteRange fills in an empty paragraph); the
\* second does not, deleteBlock has no such guard.
C10_LastBlockDeleteGuarded ==
    /\ Len(doc) >= 1
    /\ (call.op = "deleteBlock" /\ CallNode.kind = "block" /\ Len(call.before) = 1)
           => (~call.ret /\ doc = call.before)

(***************************************************************************)
(* Properties of the commands (SpecCommands).                              *)
(***************************************************************************)

\* The commands that change the document.
MutatingCommands ==
    {"moveBlock", "duplicateBlock", "deleteBlock", "resetBlockFormatting",
     "setBlockColorAt"}

\* The number of characters in the blocks of d.
RECURSIVE TextLength(_)
TextLength(d) == IF d = <<>> THEN 0 ELSE Len(Head(d).text) + TextLength(Tail(d))

\* C11: a command that returns false (or throws) leaves the document as
\* it was, and a moveBlock that changed the document has put the block
\* back: the moved block is in the document and no text is lost.
C11_CommandsAreAtomic ==
    /\ (call.op \in MutatingCommands /\ ~call.ret) => doc = call.before
    /\ (MovedABlock /\ doc # call.before)
           => /\ call.ret
              /\ \E i \in 1..Len(doc) : doc[i] = call.before[CallNode.index]
              /\ TextLength(doc) = TextLength(call.before)

\* C11 witness: a block of a coloured two-block document was moved, and
\* the document changed.
C11_Witness ==
    /\ MovedABlock /\ call.ret /\ doc # call.before
    /\ Len(call.before) = 2
    /\ call.before[CallNode.index].backgroundColor # Null

\* The commands that are given a block position.
PositionCommands == MutatingCommands \cup {"copyBlock"}

\* C12 as claimed: a command given a position with no node returns false
\* and leaves the document unchanged; moveBlock reports the missing block
\* and duplicateBlock raises nothing.
C12_MissingNodeReturnsFalse ==
    (call.op \in PositionCommands /\ CallNode.kind \in {"null", "throw"})
        => /\ ~call.threw
           /\ ~call.ret
           /\ doc = call.before
           /\ call.op = "moveBlock"
                  => call.notes = <<showWarning("Could not find block to move")>>
           /\ call.op = "duplicateBlock" => call.notes = <<>>

\* C19: resetBlockFormatting on a block returns true; no character of the
\* block carries a mark afterwards, the characters are the same, the
\* block's type and attrs and every other block are unchanged; a block
\* without content leaves the document unchanged.
C19_ResetStripsMarksKeepsText ==
    (call.op = "resetBlockFormatting" /\ CallNode.kind = "block")
        => LET i == CallNode.index
               old == call.before[i]
           IN  /\ call.ret
               /\ Len(doc) = Len(call.before)
               /\ \A k \in 1..Len(doc[i].text) : doc[i].text[k].marks = {}
               /\ TextContent(doc[i]) = TextContent(old)
               /\ doc[i].type = old.type
               /\ doc[i].level = old.level
               /\ doc[i].backgroundColor = old.backgroundColor
               /\ Without(doc, i) = Without(call.before, i)
               /\ old.text = <<>> => doc = call.before

\* C19 witness: a coloured block with a marked character has been reset.
C19_Witness ==
    /\ call.op = "resetBlockFormatting" /\ CallNode.kind = "block" /\ call.ret
    /\ \E k \in 1..Len(call.before[CallNode.index].text) :
           call.before[CallNode.index].text[k].marks # {}
    /\ call.before[CallNode.index].backgroundColor # Null
    /\ Len(call.before) = 2

\* C20: setBlockColorAt on a block stores null for 'transparent' and the
\* given value otherwise, changes nothing else of the block and no other
\* block; no block ever holds 'transparent'.
C20_TransparentClearsColor ==
    /\ \A i \in 1..Len(doc) : doc[i].backgroundColor # "transparent"
    /\ (call.op = "setBlockColorAt" /\ CallNode.kind = "block")
           => LET i == CallNode.index IN
              /\ call.ret
              /\ doc[i].backgroundColor
                     = (IF call.color = "transparent" THEN Null ELSE call.color)
              /\ doc = [call.before EXCEPT ![i].backgroundColor = doc[i].backgroundColor]

\* C20 witness: 'transparent' was given for a block that had a colour.
C20_Witness ==
    /\ call.op = "setBlockColorAt" /\ CallNode.kind = "block"
    /\ call.color = "transparent"
    /\ call.before[CallNode.index].backgroundColor # Null
    /\ doc[CallNode.index].backgroundColor = Null

(***************************************************************************)
(* Properties of validateDropPosition (SpecValidate).                      *)
(***************************************************************************)
Validated == vResult # NoResult

BothNumbers == typeof(vArgs.sourcePos) = "number" /\ typeof(vArgs.targetPos) = "number"

SourceEnd == JsAdd(vArgs.sourcePos, vArgs.nodeSize)

\* C3 as claimed: the drop is valid exactly when both positions are
\* numbers, 0 <= targetPos <= docSize and targetPos is outside
\* [sourcePos, sourcePos + nodeSize]; an invalid drop has a reason; a
\* numeric targetPos below 0 or above docSize is reported as out of bounds.
C3_ValidExactlyWhenInBoundsAndOutsideSource ==
    Validated =>
        /\ vResult.isValid <=>
               /\ BothNumbers
               /\ JsLe(Num(0), vArgs.targetPos)
               /\ JsLe(vArgs.targetPos, vArgs.docSize)
               /\ \/ JsLt(vArgs.targetPos, vArgs.sourcePos)
                  \/ JsGt(vArgs.targetPos, SourceEnd)
        /\ ~vResult.isValid => vResult.reason # Null
        /\ (/\ BothNumbers
            /\ \/ JsLt(vArgs.targetPos, Num(0))
               \/ JsGt(vArgs.targetPos, vArgs.docSize))
               => vResult = [isValid |-> FALSE, reason |-> ReasonOutOfBounds]

\* C5 as claimed: a targetPos of the document equal to sourcePos or to
\* sourcePos + nodeSize fails with the reason "Block is already at this
\* position".
C5_EdgeDropIsAlreadyThere ==
    (/\ Validated
     /\ BothNumbers
     /\ JsLe(Num(0), vArgs.targetPos) /\ JsLe(vArgs.targetPos, vArgs.docSize)
     /\ \/ JsStrictEq(vArgs.targetPos, vArgs.sourcePos)
        \/ JsStrictEq(vArgs.targetPos, SourceEnd))
        => vResult = [isValid |-> FALSE, reason |-> ReasonAlreadyThere]

\* C7 as claimed: a sourcePos or targetPos that is not an integer is
\* rejected.
C7_NonIntegerRejected ==
    (Validated /\ (~IsInteger(vArgs.sourcePos) \/ ~IsInteger(vArgs.targetPos)))
        => ~vResult.isValid

(***************************************************************************)
(* Properties of isConversionValid (SpecConversion).                       *)
(***************************************************************************)
ConversionValidated == cvResult # NoValidation

\* C16 as claimed: a conversion from listItem is invalid and has a reason,
\* whatever the target type and the attrs; every other conversion is valid.
C16_ListItemAlwaysInvalid ==
    ConversionValidated =>
        IF cvArgs.sourceType = "listItem"
        THEN ~cvResult.valid /\ cvResult.reason # Null
        ELSE cvResult.valid

(***************************************************************************)
(* Properties of the block context menu (SpecMenu).  After a click on the  *)
(* grid, call.pos and call.node are the position and the node the menu was *)
(* opened for, call.blockType the entry clicked, call.before the document  *)
(* the click found.                                                        *)
(***************************************************************************)
RECURSIVE NodeAfter(_, _)
\* The block that starts at position pos of the blocks d, at any depth, or
\* NoNode when no block starts there.
NodeAfter(d, pos) ==
    IF d = <<>> \/ pos < 0 THEN NoNode
    ELSE IF pos = 0 THEN Head(d)
    ELSE IF pos < NodeSize(Head(d))
    THEN IF IsTextblock(Head(d)) THEN NoNode
         ELSE NodeAfter(Head(d).content, pos - 1)
    ELSE NodeAfter(Tail(d), pos - NodeSize(Head(d)))

RECURSIVE LeafTexts(_)
\* The plain text of every textblock of the blocks d, in document order.
LeafTexts(d) ==
    IF d = <<>> THEN <<>>
    ELSE (IF IsTextblock(Head(d)) THEN <<TextContent(Head(d))>>
          ELSE LeafTexts(Head(d).content))
         \o LeafTexts(Tail(d))

GridClicked == call.op = "convertBlockType"

\* The block at the clicked menu's position in the document the click found.
CurrentBlock == NodeAfter(call.before, call.pos)

\* isConversionValid for the conversion that was asked for.
RequestValidation ==
    isConversionValid(call.node.type, call.blockType.type,
                      call.blockType.level, call.node.level)

\* C13: a conversion picked from the block context menu applies to the
\* block that is at the menu's position when the entry is picked, and the
\* content range it selects, (pos + 1, pos + nodeSize - 1), is computed from
\* that block, whatever happened to the document since the menu was opened.
C13_ConversionUsesCurrentNode ==
    GridClicked =>
        /\ CurrentBlock.type # Null
        /\ call.node = CurrentBlock
        /\ call.pos + NodeSize(call.node) - 1
               = call.pos + NodeSize(CurrentBlock) - 1

C15_ListItemConversionRejected ==
    (/\ call.op \in {"convertBlockType", "selectType"}
     /\ call.node.type = "listItem")
    => /\ doc = call.before
       /\ \E k \in 1..Len(call.notes) :
             /\ call.notes[k].type = "conversionError"
             /\ call.notes[k].message = ReasonListItem

\* C17: a conversion of a block to the type and attrs it already has (a
\* paragraph, a code block, a bullet list, an ordered list, a heading of the
\* same level) is valid for isConversionValid with an "already" reason, and
\* leaves the document as it was.
C17_SameTypeIsNoOp ==
    (/\ GridClicked
     /\ call.node = CurrentBlock
     /\ call.node.type \in {"paragraph", "heading", "codeBlock",
                            "bulletList", "orderedList"}
     /\ call.blockType.type = call.node.type
     /\ call.blockType.level = call.node.level)
    => /\ RequestValidation.valid
       /\ RequestValidation.reason \in {ReasonAlreadyType, ReasonAlreadyLevel}
       /\ doc = call.before

\* C18: a conversion to blockquote of the top-level block at pos lifts the
\* block's content out when the block at pos in the current document is a
\* blockquote, and wraps the block in a blockquote when it is not.
C18_BlockquoteToggles ==
    (/\ GridClicked
     /\ CommandType(call.blockType.type) = "blockquote"
     /\ BlockStartingAt(call.before, call.pos) # 0)
    => LET i == BlockStartingAt(call.before, call.pos) IN
       IF CurrentBlock.type = "blockquote"
       THEN doc = Replaced(call.before, i, CurrentBlock.content)
       ELSE doc = Replaced(call.before, i,
                           <<Container("blockquote", Null, <<CurrentBlock>>)>>)


\* The colours of the top-level blocks of d, in order.
Colors(d) == [i \in 1..Len(d) |-> d[i].backgroundColor]

\* C21: a block given a colour of the palette by setBlockColorAt has that
\* colour again after the document is serialised and parsed, and a block
\* without a colour has none after it ("transparent" counts as no colour).
C21_ColorRoundTrips ==
    (call.op = "setHTML" /\ Len(doc) = Len(call.before)) =>
        \A i \in 1..Len(call.before) :
            call.before[i].backgroundColor \in (BLOCK_COLORS \cup {Null})
                => doc[i].backgroundColor = call.before[i].backgroundColor

\* The snapshot a pending copy holds.
Snapshot(copy) == <<copy.pos, copy.plainText, copy.htmlContent>>

\* A step of the copy: copyBlockAt starting it, or its write settling.
CopyStarts == copying = NoCopy /\ copying' # NoCopy
CopySettles == copying # NoCopy /\ call'.op = "clipboardSettled" /\ call # call'

\* C25: a copy takes the text and the HTML of its node from the document
\* it is called on, before its first write; whatever is done to the
\* document while a write is pending, the clipboard is given that text and
\* HTML (the text alone in the text-only fallback); and neither the start
\* of a copy nor the settling of a write changes the document.
C25_CopyWritesItsSnapshot ==
    [][ /\ CopyStarts =>
              /\ doc' = doc
              /\ NodeAt(doc, call'.pos).kind = "block"
              /\ copying'.plainText = TextContent(doc[NodeAt(doc, call'.pos).index])
              /\ copying'.htmlContent = getNodeHTML(doc[NodeAt(doc, call'.pos).index])
        /\ (copying # NoCopy /\ copying' # NoCopy) => Snapshot(copying') = Snapshot(copying)
        /\ CopySettles => doc' = doc
        /\ clipboard' # clipboard =>
              /\ CopySettles
              /\ clipboard'.plain = copying.plainText
              /\ clipboard'.html = IF copying.stage = "writeText"
                                   THEN NoHTML ELSE copying.htmlContent
      ]_vars

\* A text-only write has been fulfilled whose text no block of the
\* document holds any more: the block was changed by a command that ran
\* while the write was pending.
C25_Witness ==
    /\ call.op = "clipboardSettled"
    /\ call.ret
    /\ clipboard.html = NoHTML
    /\ clipboard.plain # <<>>
    /\ \A i \in 1..Len(doc) : TextContent(doc[i]) # clipboard.plain

\* A drag of the handle is under way: dragstart has come, dragend has not.
Dragging == gesture \in {"dragging", "dropped"}

\* C27: between a dragstart and its dragend both dragging flags are true,
\* whatever timeouts of earlier drags fire in between.
C27_FlagHeldWhileDragging ==
    Dragging => (isDragging /\ menuIsDragging)

\* Both flags are false and no timeout is pending.
FlagsAtRest ==
    ~isDragging /\ ~menuIsDragging /\ editorTimers = 0 /\ menuTimers = 0

\* C28: when a drag has ended and no new one starts, both flags become
\* false; and a flag that is false stays false until the next dragstart.
C28_FlagsReturnToRest ==
    /\ (~Dragging) ~> (Dragging \/ FlagsAtRest)
    /\ [][ ((isDragging' /\ ~isDragging) \/ (menuIsDragging' /\ ~menuIsDragging))
              => (gesture = "idle" /\ gesture' = "dragging") ]_vars

\* A block has been dropped, the drag has ended, and the flags are at rest.
C28_Witness ==
    /\ call.op = "drop"
    /\ gesture = "idle"
    /\ FlagsAtRest

\* The step is a click on the handle; openMenu is what it emitted.
Clicked == call'.op = "handleClick" /\ call # call'
OpenMenuEmitted == call'.notes = <<emit("openMenu", Null)>>

\* C29: a click while DragHandleMenu's flag is true emits nothing and only
\* clears the flag; a click while it is false emits openMenu; the click of
\* the release that ends a drag never emits openMenu; and a click made when
\* the timeouts have fired emits it.
C29_ClickOpensUnlessDragEnded ==
    [][ Clicked =>
          /\ menuIsDragging =>
                /\ ~OpenMenuEmitted
                /\ ~menuIsDragging'
                /\ UNCHANGED <<doc, isMenuOpen, isOpen, blockInfo, isDragging>>
          /\ ~menuIsDragging => OpenMenuEmitted
          /\ gesture = "released" => ~OpenMenuEmitted
          /\ (gesture = "idle" /\ menuTimers = 0) => OpenMenuEmitted
      ]_vars

\* What validateDropPosition answers for a drop at targetPos of the block
\* dragged from source in document d.
DropValidation(d, source, targetPos) ==
    validateDropPosition(Num(source.pos), Num(targetPos),
                         Num(NodeSize(source.node)), Num(SizeOf(d)))

\* The last step of the handle was a drop, and the drag has come to rest.
Dropped == call.op = "drop"
AtRest == gesture = "idle" /\ FlagsAtRest

\* C22: the handle is brought to a block, the block is dragged and dropped
\* at a position validateDropPosition accepts, and when the drag has come
\* to rest the block starts at the resolved target position (the target,
\* less the block's size when the target is after the source).
C22_AcceptedDropRelocates ==
    (Dropped /\ AtRest /\ CallValidation.isValid)
        => /\ NodeAt(doc, ResolvedTarget).kind = "block"
           /\ doc[NodeAt(doc, ResolvedTarget).index] = call.node

\* The step is a drop that validateDropPosition rejects, or the end of a
\* drag without a drop.
RejectedDrop ==
    /\ call'.op = "drop" /\ call # call'
    /\ ~DropValidation(doc, dragged, call'.targetPos).isValid
CancelledDrag == gesture = "dragging" /\ gesture' = "released"

C24_SourceFixedAndMutationAborts ==
    [][ /\ (Dragging /\ Dragging') => dragged' = dragged
        /\ (call'.op = "drop" /\ call # call' /\ doc # dragged.before) => doc' = doc
      ]_vars

\* The last command was an accepted moveBlock to a block boundary of the
\* document it was given.
BoundaryMove ==
    /\ MovedABlock
    /\ call.ret
    /\ (call.targetPos = SizeOf(call.before)
        \/ BlockStartingAt(call.before, call.targetPos) # 0)

\* The moveBlock that takes the block back: from where it is now to the
\* boundary it came from.
BackSource ==
    IF call.targetPos > call.pos + CallNode.nodeSize
    THEN call.targetPos - CallNode.nodeSize
    ELSE call.targetPos
BackTarget ==
    IF call.targetPos > call.pos + CallNode.nodeSize
    THEN call.pos
    ELSE call.pos + CallNode.nodeSize

\* C30: after an accepted moveBlock of the block at s (size n) to a block
\* boundary t, the moveBlock from t - n to s (when t > s + n), or from t to
\* s + n (when t < s), is accepted by validateDropPosition and gives the
\* original document back.
C30_BoundaryMoveIsReversible ==
    BoundaryMove =>
        LET back == moveBlock(doc, BackSource, BackTarget) IN
            /\ validateDropPosition(Num(BackSource), Num(BackTarget),
                                    Num(CallNode.nodeSize), Num(SizeOf(doc))).isValid
            /\ back.ret
            /\ ~back.threw
            /\ back.doc = call.before

\* A block has been moved to a block boundary and the document is another.
C30_Witness ==
    /\ BoundaryMove
    /\ doc # call.before
    /\ Len(doc) = MaxBlocks

RECURSIVE BlockSpans(_, _)
\* Every block of content, the blocks inside blocks included, with its
\* position and its size; start is the position content begins at.
BlockSpans(content, start) ==
    UNION { { [pos |-> start + StartOf(content, i),
               nodeSize |-> NodeSize(content[i])] }
            \cup (IF IsTextblock(content[i]) THEN {}
                  ELSE BlockSpans(content[i].content,
                                  start + StartOf(content, i) + 1)) :
            i \in 1..Len(content) }

====
